---- MODULE Spec2Model ----
(***************************************************************************)
(* A model of the reusable mechanisms of the python-tutor lessons:         *)
(*   - memoize / fibonacci       (01_python_basics/03_functions.py)        *)
(*   - batch_generator, read_large_file, retry_decorator                   *)
(*                               (01_python_basics/06_advanced_features.py)*)
(*   - retry_operation           (01_python_basics/02_control_flow.py)     *)
(*   - Config                    (01_python_basics/05_modules_and_packages.py) *)
(*   - BankAccount, FileManager  (01_python_basics/04_classes_and_oop.py)  *)
(*   - OrderService              (08_best_practices/solid_principles.py)   *)
(* Each mechanism has its own specification over the shared variables; a   *)
(* specification leaves the variables of the other mechanisms unchanged.   *)
(***************************************************************************)
EXTENDS Integers, Sequences, FiniteSets, TLC

VARIABLES
    func,       \* memoize: the wrapped function of each wrapper (closure variable func)
    cache,      \* memoize: the cache dict of each wrapper (closure variable cache)
    invoked,    \* observer: how often func was invoked, per wrapper and exact argument tuple
    hist,       \* observer: the completed calls so far, with their results
    last,       \* observer: the call completed last
    ncalls,     \* observer: number of calls made so far
    fcache,     \* fibonacci: the cache dict of the memoized fibonacci
    stack,      \* fibonacci: the call stack, innermost frame last
    fret,       \* fibonacci: the value returned by the frame that returned last
    fruns,      \* observer: how often the body of fibonacci ran, per argument
    ftop,       \* observer: the top-level call completed last and its result
    fcalls,     \* observer: number of top-level calls made so far
    cfunc,      \* concurrent memoize: the wrapped function
    ccache,     \* concurrent memoize: the cache dict the contexts share
    cpc,        \* concurrent memoize: where each context is in wrapper
    cargs,      \* concurrent memoize: the args of each context's call
    cres,       \* concurrent memoize: the value func returned to each context
    cruns,      \* observer: how often func ran, per argument tuple
    cstarted,   \* observer: how many calls were started, per argument tuple
    overlap,    \* observer: whether a call was started while another was running
    items,      \* batch_generator: the list passed as items
    bsize,      \* batch_generator: batch_size
    gstate,     \* batch_generator: the state of the generator object
    rng,        \* batch_generator: the range iterator of the for loop
    batches,    \* consumer: the batches received so far, in order
    berr,       \* consumer: the exception a production step raised
    bextra,     \* consumer: production steps requested after the generator ended
    removed,    \* observer: whether the caller removed an item from the list
    src,        \* read_large_file: the lines of the file at file_path
    openable,   \* read_large_file: whether open(file_path) succeeds
    fstate,     \* read_large_file: the state of the generator object
    fopen,      \* read_large_file: whether the file object is open
    pos,        \* read_large_file: how many lines the for loop has read
    out,        \* consumer: the items received so far, in order
    ferr,       \* consumer: the exception a production step raised
    attempts,   \* observer: how often open was called
    opens,      \* observer: how often open succeeded
    closes,     \* observer: how often the file was closed
    cons,       \* consumer: reading, or stopped (generator kept or dropped)
    fextra      \* consumer: production steps requested after the generator ended

VARIABLES
    rkind,      \* retry: which wrapper runs (retry_decorator's, or retry_operation)
    rlimit,     \* retry: max_attempts / max_retries
    rattempt,   \* retry: the loop variable attempt
    rpc,        \* retry: idle, in the loop, returned, or raised
    rhist,      \* observer: the outcome of each invocation of the operation, in order
    rout,       \* caller: what the wrapper returned or raised, and of which attempt
    inst,       \* Config._instance: 0 for None, or the number of the object
    initialized,\* Config: _initialized of the instance
    sroot,      \* Config: the kind of value held by the attribute settings
    settings,   \* Config: settings, as the value at each path of keys
    installs,   \* observer: how often __init__ assigned the default settings
    refs,       \* observer: the objects that constructions have returned
    clast,      \* caller: the last Config operation and what it returned or raised
    cops,       \* observer: how many Config operations ran
    fmfile,     \* FileManager: self.file (None, an open file, a closed file)
    fmpc,       \* FileManager: where the with statement is
    fmexc,      \* caller: the exception that left the with statement
    fmopens,    \* observer: how often open succeeded
    fmcloses,   \* observer: how often close was called on a file
    fmleft,     \* observer: how each with statement ended, in order
    fmuses,     \* observer: how many with statements were started
    balance,    \* BankAccount: __balance
    binit,      \* observer: the balance the account was created with
    blast,      \* caller: the last BankAccount call and its outcome
    bops,       \* observer: how many deposit and withdraw calls ran
    ototal,     \* Order: total
    oitems,     \* Order: items
    ostrategy,  \* OrderService: discount_strategy
    saved,      \* persistence: the totals of the orders passed to save, in order
    olast,      \* caller: what the last process_order returned, and on which total
    oops        \* observer: how many process_order calls ran

retryVars == <<rkind, rlimit, rattempt, rpc, rhist, rout>>
cfgVars == <<inst, initialized, sroot, settings, installs, refs, clast, cops>>
fmVars == <<fmfile, fmpc, fmexc, fmopens, fmcloses, fmleft, fmuses>>
bankVars == <<balance, binit, blast, bops>>
orderVars == <<ototal, oitems, ostrategy, saved, olast, oops>>

memoVars == <<func, cache, invoked, hist, last, ncalls>>
fibVars == <<fcache, stack, fret, fruns, ftop, fcalls>>

concVars == <<cfunc, ccache, cpc, cargs, cres, cruns, cstarted, overlap>>
batchVars == <<items, bsize, gstate, rng, batches, berr, bextra, removed>>

fileVars == <<src, openable, fstate, fopen, pos, out, ferr, attempts, opens,
              closes, cons, fextra>>

coreVars == <<memoVars, fibVars, concVars, batchVars, fileVars>>
appVars == <<retryVars, cfgVars, fmVars, bankVars, orderVars>>

vars == <<coreVars, appVars>>

(***************************************************************************)
(* Bounds                                                                  *)
(***************************************************************************)
MaxCalls == 3
MaxN == 5
MaxTop == 2
MaxConcCalls == 3
MaxLen == 4
MaxBatch == 3
MaxNeg == 2
MaxExtra == 2
MaxLines == 2
MaxRetry == 4
MaxOps == 3
MaxUses == 3
MaxAmount == 3
MaxBankOps == 3
MaxTotal == 3
MaxProcess == 3

(***************************************************************************)
(* Python values used as arguments, and Python's key equality.             *)
(* A dict finds a key by hash and ==; 1 == 1.0 and hash(1) == hash(1.0),   *)
(* so the tuples (1,) and (1.0,) are one key.  A list is not hashable, and *)
(* a tuple holding one is not either.                                      *)
(***************************************************************************)
I1 == [t |-> "int", v |-> 1]
I2 == [t |-> "int", v |-> 2]
F1 == [t |-> "float", v |-> 1]
L1 == [t |-> "list", v |-> 1]

HashTuples == {<<I1>>, <<F1>>, <<I1, I2>>}
ArgTuples == HashTuples \cup {<<I1, L1>>}
Results == {0, 1}
Wrappers == {"f", "g"}

\* hash(args): the hash of a tuple hashes every element; a list has none.
Hashable(args) == \A i \in 1..Len(args) : args[i].t # "list"

\* key == args, as the dict lookup compares keys: numbers by value.
KeyEq(a, b) ==
    /\ Len(a) = Len(b)
    /\ \A i \in 1..Len(a) : a[i].v = b[i].v /\ (a[i].t = "list") = (b[i].t = "list")

(***************************************************************************)
(* The dict operations the wrapper uses.  A dict is a set of entries       *)
(* [key, val] with at most one entry per key (up to KeyEq).                *)
(***************************************************************************)
\* Variant: a membership test that never finds the key.
InCacheNever(c, args) == FALSE

\* args in cache
InCache(c, args) == \E e \in c : KeyEq(e.key, args)

\* cache[args], read
CacheGet(c, args) == (CHOOSE e \in c : KeyEq(e.key, args)).val

\* Variant: a store that keeps only the newest entry.
CacheSetEvict(c, args, val) == {[key |-> args, val |-> val]}

\* cache[args] = val: a new key is added; an existing (equal) key keeps its
\* key object and takes the new value.
CacheSet(c, args, val) ==
    IF InCache(c, args)
    THEN {IF KeyEq(e.key, args) THEN [key |-> e.key, val |-> val] ELSE e : e \in c}
    ELSE c \cup {[key |-> args, val |-> val]}

\* Variant: one module-level cache shared by every wrapper.
ClosureGlobal(w) == "f"

\* Each call of memoize makes a new cache dict, which its wrapper closes over:
\* the cache a wrapper uses is its own.
Closure(w) == w

NoCall == [w |-> "none", args |-> <<>>, outcome |-> "none", result |-> 0,
           ran |-> FALSE, seen |-> FALSE]

\* memoize(func): cache = {} ; return wrapper
Memoize == [w \in Wrappers |-> {}]

NoneInvoked == [w \in Wrappers |-> [a \in ArgTuples |-> 0]]

NoTop == [n |-> -1, result |-> 0]

\* The state of each mechanism before it is used.
MemoIdle ==
    /\ cache = Memoize
    /\ invoked = NoneInvoked
    /\ hist = {}
    /\ last = NoCall
    /\ ncalls = 0

FibIdle ==
    /\ fcache = {}
    /\ stack = <<>>
    /\ fret = 0
    /\ fruns = [n \in 0..MaxN |-> 0]
    /\ ftop = NoTop
    /\ fcalls = 0

Contexts == {"t1", "t2"}

ConcIdle ==
    /\ ccache = {}
    /\ cpc = [t \in Contexts |-> "idle"]
    /\ cargs = [t \in Contexts |-> <<>>]
    /\ cres = [t \in Contexts |-> 0]
    /\ cruns = [a \in HashTuples |-> 0]
    /\ cstarted = [a \in HashTuples |-> 0]
    /\ overlap = FALSE

NoRange == [cur |-> 0, stop |-> 0, step |-> 1]

BatchIdle ==
    /\ items = <<>>
    /\ bsize = 1
    /\ gstate = "none"
    /\ rng = NoRange
    /\ batches = <<>>
    /\ berr = "none"
    /\ bextra = 0
    /\ removed = FALSE

FileIdle ==
    /\ src = <<>>
    /\ openable = TRUE
    /\ fstate = "none"
    /\ fopen = FALSE
    /\ pos = 0
    /\ out = <<>>
    /\ ferr = "none"
    /\ attempts = 0
    /\ opens = 0
    /\ closes = 0
    /\ cons = "reading"
    /\ fextra = 0

NoOutcome == [kind |-> "none", of |-> 0]

RetryIdle ==
    /\ rkind = "none"
    /\ rlimit = 0
    /\ rattempt = 0
    /\ rpc = "idle"
    /\ rhist = <<>>
    /\ rout = NoOutcome

\* The keys of the settings dicts, and how deep the settings nest; a path is
\* the list of keys that leads from settings to a value.
Elem == {"debug", "database", "host", "port", "api_key"}
Depth == 2
Paths == UNION {[1..n -> Elem] : n \in 1..Depth}

\* A dict without entries: no path leads anywhere.
EmptyDict == [p \in Paths |-> "absent"]

NoConfigOp == [op |-> "none", key |-> <<>>, val |-> "None", res |-> "None"]

\* Before the class is used: _instance = None, and no instance attributes.
ConfigIdle ==
    /\ inst = 0
    /\ initialized = FALSE
    /\ sroot = "unset"
    /\ settings = EmptyDict
    /\ installs = 0
    /\ refs = {}
    /\ clast = NoConfigOp
    /\ cops = 0

FMIdle ==
    /\ fmfile = "None"
    /\ fmpc = "none"
    /\ fmexc = "none"
    /\ fmopens = 0
    /\ fmcloses = 0
    /\ fmleft = <<>>
    /\ fmuses = 0

NoAccount == [made |-> FALSE, balance |-> 0]
NoBankOp == [op |-> "none", amount |-> 0, outcome |-> "none", before |-> 0]

BankIdle ==
    /\ balance = 0
    /\ binit = NoAccount
    /\ blast = NoBankOp
    /\ bops = 0

NoStrategy == [kind |-> "none", arg |-> 0]
NoProcess == [ret |-> "none", total |-> 0, valid |-> FALSE, discount |-> 0]

OrderIdle ==
    /\ ototal = 0
    /\ oitems = <<>>
    /\ ostrategy = NoStrategy
    /\ saved = <<>>
    /\ olast = NoProcess
    /\ oops = 0

AppIdle ==
    /\ RetryIdle
    /\ ConfigIdle
    /\ FMIdle
    /\ BankIdle
    /\ OrderIdle

\* The state in which none of the generators and wrappers of the first
\* part has been used.
CoreIdle ==
    /\ func = [w \in Wrappers |-> [a \in HashTuples |-> 0]]
    /\ cfunc = [a \in HashTuples |-> 0]
    /\ MemoIdle
    /\ FibIdle
    /\ ConcIdle
    /\ BatchIdle
    /\ FileIdle

Init ==
    /\ func \in [Wrappers -> [HashTuples -> Results]]
    /\ cfunc = [a \in HashTuples |-> 0]
    /\ MemoIdle
    /\ FibIdle
    /\ ConcIdle
    /\ BatchIdle
    /\ FileIdle
    /\ AppIdle

\* Whether an earlier completed call of wrapper w had this argument tuple (as a key).
SeenBefore(w, args) == \E h \in hist : h.w = w /\ KeyEq(h.args, args)

(***************************************************************************)
(* wrapper called with args, a whole call by a single-threaded caller.     *)
(*   if args not in cache:      (hashes args: TypeError if unhashable)     *)
(*       cache[args] = func called with args                               *)
(*   return cache[args]                                                    *)
(***************************************************************************)
\* Variant: func is called before args is hashed.
WrapperRaiseLate(w, args) ==
    /\ ~Hashable(args)
    /\ invoked' = [invoked EXCEPT ![w][args] = @ + 1]
    /\ last' = [w |-> w, args |-> args, outcome |-> "TypeError", result |-> 0,
                ran |-> TRUE, seen |-> SeenBefore(w, args)]
    /\ UNCHANGED <<cache, hist>>

\* args not in cache raises TypeError: nothing after it runs.
WrapperRaise(w, args) ==
    /\ ~Hashable(args)
    /\ last' = [w |-> w, args |-> args, outcome |-> "TypeError", result |-> 0,
                ran |-> FALSE, seen |-> SeenBefore(w, args)]
    /\ UNCHANGED <<cache, invoked, hist>>

\* args not in cache: func runs, its result is stored and then read back.
WrapperMiss(w, args) ==
    /\ Hashable(args)
    /\ ~InCache(cache[Closure(w)], args)
    /\ invoked' = [invoked EXCEPT ![w][args] = @ + 1]
    /\ cache' = [cache EXCEPT ![Closure(w)] = CacheSet(@, args, func[w][args])]
    /\ last' = [w |-> w, args |-> args, outcome |-> "return",
                result |-> CacheGet(cache'[Closure(w)], args),
                ran |-> TRUE, seen |-> SeenBefore(w, args)]
    /\ hist' = hist \cup {[w |-> w, args |-> args, result |-> last'.result]}

\* args in cache: the stored result is returned.
WrapperHit(w, args) ==
    /\ Hashable(args)
    /\ InCache(cache[Closure(w)], args)
    /\ last' = [w |-> w, args |-> args, outcome |-> "return",
                result |-> CacheGet(cache[Closure(w)], args),
                ran |-> FALSE, seen |-> SeenBefore(w, args)]
    /\ hist' = hist \cup {[w |-> w, args |-> args, result |-> last'.result]}
    /\ UNCHANGED <<cache, invoked>>

Wrapper(w, args) ==
    /\ ncalls < MaxCalls
    /\ ncalls' = ncalls + 1
    /\ UNCHANGED func
    /\ UNCHANGED <<fibVars, concVars, batchVars, fileVars, appVars>>
    /\ \/ WrapperRaise(w, args)
       \/ WrapperMiss(w, args)
       \/ WrapperHit(w, args)

Next ==
    \E w \in Wrappers, args \in ArgTuples : Wrapper(w, args)

Spec == Init /\ [][Next]_vars

(***************************************************************************)
(* memoize around a function that can raise (SpecRaise).  The right side   *)
(* of the store is evaluated first: when func raises, the assignment to    *)
(* the cache entry and the return are not reached, and as the wrapper has  *)
(* no try the exception leaves it.                                         *)
(***************************************************************************)
InitRaise ==
    /\ func = [w \in Wrappers |-> [a \in HashTuples |-> 1]]
    /\ cfunc = [a \in HashTuples |-> 0]
    /\ MemoIdle
    /\ FibIdle
    /\ ConcIdle
    /\ BatchIdle
    /\ FileIdle
    /\ AppIdle

\* Variant: the exception is caught and a default stored as the result.
WrapperFuncRaisesStored(w, args) ==
    /\ Hashable(args)
    /\ ~InCache(cache[Closure(w)], args)
    /\ invoked' = [invoked EXCEPT ![w][args] = @ + 1]
    /\ cache' = [cache EXCEPT ![Closure(w)] = CacheSet(@, args, 0)]
    /\ last' = [w |-> w, args |-> args, outcome |-> "Exception", result |-> 0,
                ran |-> TRUE, seen |-> SeenBefore(w, args)]
    /\ UNCHANGED hist

\* args not in cache, and func raises: the exception propagates.
WrapperFuncRaises(w, args) ==
    /\ Hashable(args)
    /\ ~InCache(cache[Closure(w)], args)
    /\ invoked' = [invoked EXCEPT ![w][args] = @ + 1]
    /\ last' = [w |-> w, args |-> args, outcome |-> "Exception", result |-> 0,
                ran |-> TRUE, seen |-> SeenBefore(w, args)]
    /\ UNCHANGED <<cache, hist>>

\* A call of the wrapper of a function that raises in some of its calls.
WrapperUnstable(w, args) ==
    /\ ncalls < MaxCalls
    /\ ncalls' = ncalls + 1
    /\ UNCHANGED func
    /\ UNCHANGED <<fibVars, concVars, batchVars, fileVars, appVars>>
    /\ \/ WrapperRaise(w, args)
       \/ WrapperFuncRaises(w, args)
       \/ WrapperMiss(w, args)
       \/ WrapperHit(w, args)

NextRaise ==
    \E w \in Wrappers, args \in ArgTuples : WrapperUnstable(w, args)

SpecRaise == InitRaise /\ [][NextRaise]_vars

\* C25: a call in which the wrapped function raises ends in that exception,
\* has invoked the function once and leaves every cache as it was, with no
\* entry for the tuple; the next call with the same tuple (as a key) of the
\* same wrapper invokes the function again.
MemoRaiseStoresNothing ==
    /\ [](last.outcome = "Exception" =>
            /\ last.ran
            /\ ~InCache(cache[Closure(last.w)], last.args))
    /\ [][(ncalls' # ncalls /\ last'.outcome = "Exception") =>
            /\ cache' = cache
            /\ hist' = hist
            /\ invoked'[last'.w][last'.args] = invoked[last'.w][last'.args] + 1]_vars
    /\ [][(ncalls' # ncalls /\ last.outcome = "Exception" /\ last'.w = last.w
            /\ KeyEq(last'.args, last.args)) =>
            /\ last'.ran
            /\ invoked'[last'.w][last'.args] = invoked[last'.w][last'.args] + 1]_vars

\* C25 witness: the function raised for a tuple, and the next call with the
\* same tuple ran the function again and returned its result.
MemoRaiseWitness ==
    /\ ncalls = 2
    /\ last.outcome = "return"
    /\ last.ran
    /\ last.w = "f"
    /\ last.args = <<I1>>
    /\ invoked["f"][<<I1>>] = 2
    /\ hist = {[w |-> "f", args |-> <<I1>>, result |-> 1]}

(***************************************************************************)
(* Claims about memoize, single-threaded (Spec)                            *)
(***************************************************************************)

\* The calls of wrapper w completed so far whose arguments are the key args.
CallsOf(w, args) == {h \in hist : h.w = w /\ KeyEq(h.args, args)}

\* How often func ran for wrapper w on an argument tuple that is the key args.
RunsOf(w, args) ==
    LET same == {a \in ArgTuples : KeyEq(a, args)}
        RECURSIVE Sum(_)
        Sum(S) == IF S = {} THEN 0
                  ELSE LET a == CHOOSE x \in S : TRUE
                       IN invoked[w][a] + Sum(S \ {a})
    IN Sum(same)

\* C1: a call whose argument tuple was seen by an earlier completed call of
\* the wrapper returns the stored result (the one every earlier call with
\* that tuple returned) without invoking func; a call with an unseen tuple
\* invokes func once with those arguments, stores the result under that
\* tuple and returns it.
MemoContract ==
    last.outcome = "return" =>
        /\ last.seen =>
              /\ ~last.ran
              /\ \A h \in CallsOf(last.w, last.args) : h.result = last.result
        /\ ~last.seen =>
              /\ last.ran
              /\ RunsOf(last.w, last.args) = 1
              /\ invoked[last.w][last.args] = 1
              /\ last.result = func[last.w][last.args]
              /\ [key |-> last.args, val |-> last.result] \in cache[last.w]

\* C1 witness: a second call with a tuple seen before has returned.
MemoContractWitness ==
    /\ last.outcome = "return"
    /\ last.seen
    /\ ~last.ran
    /\ Cardinality(CallsOf(last.w, last.args)) >= 1
    /\ ncalls >= 2

\* C2 (as claimed): every call of the wrapper returns what a direct call of
\* func with the same arguments returns, and func has run exactly once for
\* every argument tuple called so far (tuples told apart as the cache tells
\* them apart).
MemoTransparent ==
    /\ last.outcome = "return" => last.result = func[last.w][last.args]
    /\ \A w \in Wrappers, a \in HashTuples :
          RunsOf(w, a) = IF CallsOf(w, a) # {} THEN 1 ELSE 0

\* C4: a call with an unhashable argument ends in TypeError, func is not
\* invoked by it, and the cache is as it was.
UnhashableFails ==
    [][(ncalls' = ncalls + 1 /\ ~Hashable(last'.args)) =>
          /\ last'.outcome = "TypeError"
          /\ ~last'.ran
          /\ invoked' = invoked
          /\ cache' = cache]_vars

\* C4 witness: a call with an unhashable argument was made on a wrapper
\* whose cache holds something.
UnhashableWitness ==
    /\ last.outcome = "TypeError"
    /\ ~Hashable(last.args)
    /\ cache[last.w] # {}

\* C5: the cache of a wrapper starts empty, and every call leaves every
\* entry (key and value) in place.
CacheMonotone ==
    /\ \A w \in Wrappers : cache[w] = {}
    /\ [][\A w \in Wrappers : cache[w] \subseteq cache'[w]]_vars

\* C5 witness: a cache holding two entries, after a call it did not grow in.
CacheMonotoneWitness ==
    /\ last.outcome = "return"
    /\ ~last.ran
    /\ Cardinality(cache[last.w]) >= 2

\* C6: a call of one wrapper leaves the cache (and the invocation count) of
\* the other as it was, and the first call of a wrapper with a tuple invokes
\* that wrapper's func whatever the other wrapper has cached.
CacheIsolation ==
    [][ncalls' = ncalls + 1 =>
          /\ \A w \in Wrappers \ {last'.w} :
                cache'[w] = cache[w] /\ invoked'[w] = invoked[w]
          /\ (last'.outcome = "return" /\ ~SeenBefore(last'.w, last'.args)) =>
                /\ last'.ran
                /\ last'.result = func[last'.w][last'.args]]_vars

\* C6 witness: g ran on a tuple that f had cached before.
CacheIsolationWitness ==
    /\ last.w = "g"
    /\ last.ran
    /\ ~last.seen
    /\ InCache(cache["f"], last.args)
    /\ func["f"][last.args] # func["g"][last.args]

(***************************************************************************)
(* fibonacci, the memoized recursive function (SpecFib).                   *)
(*   @memoize                                                              *)
(*   def fibonacci(n):                                                     *)
(*       if n < 2: return n                                                *)
(*       return fibonacci(n - 1) + fibonacci(n - 2)                        *)
(* A frame is a running call of the wrapper or of the body; a call is      *)
(* resumed when the frame it called has returned (it is the top again).    *)
(***************************************************************************)
IntArg(n) == <<[t |-> "int", v |-> n]>>

\* Variant: the body calls the undecorated function.
CalleeBody == "body"

\* The name fibonacci in the body is the decorated function: the wrapper.
Callee == "wrapper"

Frame(kind, n) ==
    [kind |-> kind, n |-> n, pc |-> IF kind = "wrapper" THEN "test" ELSE "start",
     acc |-> 0]

Top == stack[Len(stack)]
Pop == SubSeq(stack, 1, Len(stack) - 1)
SetTop(f) == [stack EXCEPT ![Len(stack)] = f]

\* The unmemoized Fibonacci number: the body, calling itself.
RECURSIVE Fib(_)
Fib(n) == IF n < 2 THEN n ELSE Fib(n - 1) + Fib(n - 2)

InitFib ==
    /\ func = [w \in Wrappers |-> [a \in HashTuples |-> 0]]
    /\ cfunc = [a \in HashTuples |-> 0]
    /\ MemoIdle
    /\ FibIdle
    /\ ConcIdle
    /\ BatchIdle
    /\ FileIdle
    /\ AppIdle

\* A top-level call fibonacci(n).
FibCall(n) ==
    /\ stack = <<>>
    /\ fcalls < MaxTop
    /\ fcalls' = fcalls + 1
    /\ stack' = <<Frame("wrapper", n)>>
    /\ UNCHANGED <<fcache, fret, fruns, ftop>>
    /\ UNCHANGED <<memoVars, concVars, batchVars, fileVars, appVars>>

\* wrapper: if args not in cache
FibTest ==
    /\ stack # <<>>
    /\ Top.kind = "wrapper"
    /\ Top.pc = "test"
    /\ IF InCache(fcache, IntArg(Top.n))
       THEN stack' = SetTop([Top EXCEPT !.pc = "ret"])
       ELSE stack' = Append(SetTop([Top EXCEPT !.pc = "store"]), Frame("body", Top.n))
    /\ UNCHANGED <<fcache, fret, fruns, ftop, fcalls>>
    /\ UNCHANGED <<memoVars, concVars, batchVars, fileVars, appVars>>

\* body: if n < 2: return n ; else call fibonacci(n - 1)
FibBodyStart ==
    /\ stack # <<>>
    /\ Top.kind = "body"
    /\ Top.pc = "start"
    /\ fruns' = [fruns EXCEPT ![Top.n] = @ + 1]
    /\ IF Top.n < 2
       THEN stack' = Pop /\ fret' = Top.n
       ELSE /\ stack' = Append(SetTop([Top EXCEPT !.pc = "wait1"]),
                               Frame(Callee, Top.n - 1))
            /\ UNCHANGED fret
    /\ UNCHANGED <<fcache, ftop, fcalls>>
    /\ UNCHANGED <<memoVars, concVars, batchVars, fileVars, appVars>>

\* body: fibonacci(n - 1) has returned; call fibonacci(n - 2)
FibBodyAfter1 ==
    /\ stack # <<>>
    /\ Top.kind = "body"
    /\ Top.pc = "wait1"
    /\ stack' = Append(SetTop([Top EXCEPT !.pc = "wait2", !.acc = fret]),
                       Frame(Callee, Top.n - 2))
    /\ UNCHANGED <<fcache, fret, fruns, ftop, fcalls>>
    /\ UNCHANGED <<memoVars, concVars, batchVars, fileVars, appVars>>

\* body: fibonacci(n - 2) has returned; return the sum
FibBodyAfter2 ==
    /\ stack # <<>>
    /\ Top.kind = "body"
    /\ Top.pc = "wait2"
    /\ fret' = Top.acc + fret
    /\ stack' = Pop
    /\ UNCHANGED <<fcache, fruns, ftop, fcalls>>
    /\ UNCHANGED <<memoVars, concVars, batchVars, fileVars, appVars>>

\* wrapper: cache[args] = (the value func returned)
FibStore ==
    /\ stack # <<>>
    /\ Top.kind = "wrapper"
    /\ Top.pc = "store"
    /\ fcache' = CacheSet(fcache, IntArg(Top.n), fret)
    /\ stack' = SetTop([Top EXCEPT !.pc = "ret"])
    /\ UNCHANGED <<fret, fruns, ftop, fcalls>>
    /\ UNCHANGED <<memoVars, concVars, batchVars, fileVars, appVars>>

\* wrapper: return cache[args]
FibReturn ==
    /\ stack # <<>>
    /\ Top.kind = "wrapper"
    /\ Top.pc = "ret"
    /\ fret' = CacheGet(fcache, IntArg(Top.n))
    /\ stack' = Pop
    /\ ftop' = IF Len(stack) = 1 THEN [n |-> Top.n, result |-> fret'] ELSE ftop
    /\ UNCHANGED <<fcache, fruns, fcalls>>
    /\ UNCHANGED <<memoVars, concVars, batchVars, fileVars, appVars>>

NextFib ==
    \/ \E n \in 0..MaxN : FibCall(n)
    \/ FibTest
    \/ FibBodyStart
    \/ FibBodyAfter1
    \/ FibBodyAfter2
    \/ FibStore
    \/ FibReturn

SpecFib == InitFib /\ [][NextFib]_vars

\* C3: over any sequence of top-level calls of the memoized fibonacci the
\* body runs at most once for each argument, although the body calls the
\* wrapper again, and a completed call fibonacci(n) returned the unmemoized
\* Fibonacci number of n.
FibOnce ==
    /\ \A n \in 0..MaxN : fruns[n] <= 1
    /\ ftop.n >= 0 => ftop.result = Fib(ftop.n)
    /\ \A e \in fcache : e.val = Fib(e.key[1].v)

\* C3 witness: a second top-level call has completed, with an argument whose
\* body calls the wrapper for arguments the first call cached.
FibOnceWitness ==
    /\ fcalls = 2
    /\ stack = <<>>
    /\ ftop.n >= 3
    /\ ftop.result = Fib(ftop.n)
    /\ \A n \in 0..ftop.n : fruns[n] = 1

(***************************************************************************)
(* wrapper called from two execution contexts that share one wrapper       *)
(* (SpecConc).  The steps of a call are those between which the            *)
(* interpreter may switch contexts: the membership test, the call of func, *)
(* the store, and the read of the result.                                  *)
(***************************************************************************)
InitConc ==
    /\ func = [w \in Wrappers |-> [a \in HashTuples |-> 0]]
    /\ cfunc \in [HashTuples -> Results]
    /\ MemoIdle
    /\ FibIdle
    /\ ConcIdle
    /\ BatchIdle
    /\ FileIdle
    /\ AppIdle

RECURSIVE SumOver(_, _)
SumOver(f, S) ==
    IF S = {} THEN 0
    ELSE LET a == CHOOSE x \in S : TRUE IN f[a] + SumOver(f, S \ {a})

SameKey(args) == {a \in HashTuples : KeyEq(a, args)}

\* A context calls wrapper with args.
ConcCall(t, args) ==
    /\ cpc[t] = "idle"
    /\ SumOver(cstarted, HashTuples) < MaxConcCalls
    /\ cpc' = [cpc EXCEPT ![t] = "test"]
    /\ cargs' = [cargs EXCEPT ![t] = args]
    /\ cstarted' = [cstarted EXCEPT ![args] = @ + 1]
    /\ overlap' = (overlap \/ \E u \in Contexts \ {t} : cpc[u] # "idle")
    /\ UNCHANGED <<cfunc, ccache, cres, cruns>>
    /\ UNCHANGED <<memoVars, fibVars, batchVars, fileVars, appVars>>

\* Variant: a membership test that always misses.
ConcTestAlwaysMiss(t) ==
    /\ cpc[t] = "test"
    /\ cpc' = [cpc EXCEPT ![t] = "invoke"]
    /\ UNCHANGED <<cfunc, ccache, cargs, cres, cruns, cstarted, overlap>>
    /\ UNCHANGED <<memoVars, fibVars, batchVars, fileVars, appVars>>

\* if args not in cache
ConcTest(t) ==
    /\ cpc[t] = "test"
    /\ cpc' = [cpc EXCEPT ![t] = IF InCache(ccache, cargs[t]) THEN "ret" ELSE "invoke"]
    /\ UNCHANGED <<cfunc, ccache, cargs, cres, cruns, cstarted, overlap>>
    /\ UNCHANGED <<memoVars, fibVars, batchVars, fileVars, appVars>>

\* func called with args: the right-hand side of the assignment
ConcInvoke(t) ==
    /\ cpc[t] = "invoke"
    /\ cres' = [cres EXCEPT ![t] = cfunc[cargs[t]]]
    /\ cruns' = [cruns EXCEPT ![cargs[t]] = @ + 1]
    /\ cpc' = [cpc EXCEPT ![t] = "store"]
    /\ UNCHANGED <<cfunc, ccache, cargs, cstarted, overlap>>
    /\ UNCHANGED <<memoVars, fibVars, batchVars, fileVars, appVars>>

\* cache[args] = (the value func returned)
ConcStore(t) ==
    /\ cpc[t] = "store"
    /\ ccache' = CacheSet(ccache, cargs[t], cres[t])
    /\ cpc' = [cpc EXCEPT ![t] = "ret"]
    /\ UNCHANGED <<cfunc, cargs, cres, cruns, cstarted, overlap>>
    /\ UNCHANGED <<memoVars, fibVars, batchVars, fileVars, appVars>>

\* return cache[args]
ConcReturn(t) ==
    /\ cpc[t] = "ret"
    /\ cres' = [cres EXCEPT ![t] = CacheGet(ccache, cargs[t])]
    /\ cpc' = [cpc EXCEPT ![t] = "idle"]
    /\ UNCHANGED <<cfunc, ccache, cargs, cruns, cstarted, overlap>>
    /\ UNCHANGED <<memoVars, fibVars, batchVars, fileVars, appVars>>

NextConc ==
    \/ \E t \in Contexts, args \in HashTuples : ConcCall(t, args)
    \/ \E t \in Contexts : ConcTest(t)
    \/ \E t \in Contexts : ConcInvoke(t)
    \/ \E t \in Contexts : ConcStore(t)
    \/ \E t \in Contexts : ConcReturn(t)

SpecConc == InitConc /\ [][NextConc]_vars

\* C7 (as claimed): when two contexts interleave calls of one wrapper, func
\* is invoked at most once for an argument tuple, under every interleaving.
ConcAtMostOnce ==
    \A a \in HashTuples : SumOver(cruns, SameKey(a)) <= 1

\* C7 (amended): func is invoked at most once per call made with the tuple,
\* so at most once per context when two contexts call together; and at most
\* once in all as long as no call was started while another was running.
ConcAtMostOncePerCall ==
    \A a \in HashTuples :
        /\ SumOver(cruns, SameKey(a)) <= SumOver(cstarted, SameKey(a))
        /\ SumOver(cruns, SameKey(a)) <= Cardinality(Contexts)
        /\ ~overlap => SumOver(cruns, SameKey(a)) <= 1

\* C7 witness: both contexts have run func for the same tuple.
ConcWitness ==
    /\ overlap
    /\ KeyEq(cargs["t1"], cargs["t2"])
    /\ cpc["t1"] = "store"
    /\ cpc["t2"] = "store"
    /\ SumOver(cruns, SameKey(cargs["t1"])) = 2

(***************************************************************************)
(* batch_generator (SpecBatch).                                            *)
(*   def batch_generator(items, batch_size):                               *)
(*       for i in range(0, len(items), batch_size):                        *)
(*           yield items[i:i + batch_size]                                 *)
(* Calling a generator function runs none of its body: the body starts at  *)
(* the first production step (next), and is suspended at each yield.       *)
(***************************************************************************)
Elems == {1, 2}

\* The lists of length at most n over Elems.
ListsUpTo(n) == UNION {[1..m -> Elems] : m \in 0..n}

Min(a, b) == IF a < b THEN a ELSE b
Max(a, b) == IF a > b THEN a ELSE b

\* A slice bound as list slicing reads it: a negative bound counts from the
\* end, and a bound outside the list is clamped to it.
Clamp(x, len) == IF x < 0 THEN Max(x + len, 0) ELSE Min(x, len)

\* Variant: a slice that includes its upper bound.
SliceInclusive(s, lo, hi) ==
    LET a == Clamp(lo, Len(s))
        b == Clamp(hi + 1, Len(s))
    IN IF a >= b THEN <<>> ELSE SubSeq(s, a + 1, b)

\* s[lo:hi]
Slice(s, lo, hi) ==
    LET a == Clamp(lo, Len(s))
        b == Clamp(hi, Len(s))
    IN IF a >= b THEN <<>> ELSE SubSeq(s, a + 1, b)

\* Variant: a range that includes its stop value.
RangeHasNextInclusive(r) ==
    IF r.step > 0 THEN r.cur <= r.stop ELSE r.cur > r.stop

\* Whether the range iterator has another value: below stop for a positive
\* step, above stop for a negative one.
RangeHasNext(r) ==
    IF r.step > 0 THEN r.cur < r.stop ELSE r.cur > r.stop

InitBatch ==
    /\ func = [w \in Wrappers |-> [a \in HashTuples |-> 0]]
    /\ cfunc = [a \in HashTuples |-> 0]
    /\ MemoIdle
    /\ FibIdle
    /\ ConcIdle
    /\ BatchIdle
    /\ FileIdle
    /\ AppIdle

\* batch_generator(S, k): the generator object is made, no code of the body runs.
BatchCreate(S, k) ==
    /\ gstate = "none"
    /\ items' = S
    /\ bsize' = k
    /\ gstate' = "created"
    /\ UNCHANGED <<rng, batches, berr, bextra, removed>>
    /\ UNCHANGED <<memoVars, fibVars, concVars, fileVars, appVars>>

\* Variant: the loop advances by one item, not by batch_size.
LoopTurnByOne(r) ==
    IF RangeHasNext(r)
    THEN /\ rng' = [r EXCEPT !.cur = r.cur + 1]
         /\ batches' = Append(batches, Slice(items, r.cur, r.cur + bsize))
         /\ gstate' = "suspended"
         /\ UNCHANGED berr
    ELSE /\ rng' = r
         /\ gstate' = "done"
         /\ UNCHANGED <<batches, berr>>

\* One turn of the for loop on range iterator r: the next i and its slice
\* are yielded, or the loop and with it the generator ends.
LoopTurn(r) ==
    IF RangeHasNext(r)
    THEN /\ rng' = [r EXCEPT !.cur = r.cur + r.step]
         /\ batches' = Append(batches, Slice(items, r.cur, r.cur + bsize))
         /\ gstate' = "suspended"
         /\ UNCHANGED berr
    ELSE /\ rng' = r
         /\ gstate' = "done"
         /\ UNCHANGED <<batches, berr>>

\* Variant: the first slice is yielded before the range is tested.
BatchFirstNextEager ==
    /\ gstate = "created"
    /\ rng' = [cur |-> bsize, stop |-> Len(items), step |-> bsize]
    /\ batches' = Append(batches, Slice(items, 0, bsize))
    /\ gstate' = "suspended"
    /\ UNCHANGED <<items, bsize, berr, bextra, removed>>
    /\ UNCHANGED <<memoVars, fibVars, concVars, fileVars, appVars>>

\* The first production step: range(0, len(items), batch_size) is evaluated
\* (ValueError for a step of zero), then the loop takes its first turn.
BatchFirstNext ==
    /\ gstate = "created"
    /\ IF bsize = 0
       THEN /\ gstate' = "raised"
            /\ berr' = "ValueError"
            /\ UNCHANGED <<rng, batches>>
       ELSE LoopTurn([cur |-> 0, stop |-> Len(items), step |-> bsize])
    /\ UNCHANGED <<items, bsize, bextra, removed>>
    /\ UNCHANGED <<memoVars, fibVars, concVars, fileVars, appVars>>

\* Variant: a while loop that reads len(items) again at every turn.
BatchNextLiveLen ==
    /\ gstate = "suspended"
    /\ LoopTurn([rng EXCEPT !.stop = Len(items)])
    /\ UNCHANGED <<items, bsize, bextra, removed>>
    /\ UNCHANGED <<memoVars, fibVars, concVars, fileVars, appVars>>

\* A later production step: the body resumes after the yield.
BatchNext ==
    /\ gstate = "suspended"
    /\ LoopTurn(rng)
    /\ UNCHANGED <<items, bsize, bextra, removed>>
    /\ UNCHANGED <<memoVars, fibVars, concVars, fileVars, appVars>>

\* Variant: a production step on an exhausted generator starts the loop again.
BatchAfterEndRestart ==
    /\ gstate \in {"done", "raised"}
    /\ bextra < MaxExtra
    /\ bextra' = bextra + 1
    /\ batches' = Append(batches, Slice(items, 0, bsize))
    /\ rng' = [cur |-> bsize, stop |-> Len(items), step |-> bsize]
    /\ gstate' = "suspended"
    /\ UNCHANGED <<items, bsize, berr, removed>>
    /\ UNCHANGED <<memoVars, fibVars, concVars, fileVars, appVars>>

\* A production step on a generator that has ended (returned or raised):
\* StopIteration, and nothing of the generator changes.
BatchAfterEnd ==
    /\ gstate \in {"done", "raised"}
    /\ bextra < MaxExtra
    /\ bextra' = bextra + 1
    /\ UNCHANGED <<items, bsize, gstate, rng, batches, berr, removed>>
    /\ UNCHANGED <<memoVars, fibVars, concVars, fileVars, appVars>>

NextBatch ==
    \/ \E S \in ListsUpTo(MaxLen), k \in (0 - MaxNeg)..MaxBatch : BatchCreate(S, k)
    \/ BatchFirstNext
    \/ BatchNext
    \/ BatchAfterEnd

SpecBatch == InitBatch /\ [][NextBatch]_vars

RECURSIVE Concat(_)
Concat(bs) == IF bs = <<>> THEN <<>> ELSE Head(bs) \o Concat(Tail(bs))

\* C8: for a positive batch size the batches produced so far, concatenated
\* in production order, are the items up to the cursor, and once the
\* generator is exhausted they are the whole list: every item is in exactly
\* one batch, in order.
BatchReconstructs ==
    (gstate \in {"suspended", "done"} /\ bsize > 0) =>
        /\ Concat(batches) = SubSeq(items, 1, Min(rng.cur, Len(items)))
        /\ gstate = "done" => Concat(batches) = items

\* C8 witness: a list was produced to the end in several batches, the last short.
BatchReconstructsWitness ==
    /\ gstate = "done"
    /\ bsize = 2
    /\ Len(items) = 3
    /\ Len(batches) = 2
    /\ Concat(batches) = items

\* C9: for a positive batch size no batch is empty, every batch before the
\* one produced last has batch_size items, and once the generator is
\* exhausted the last batch has len(items) mod batch_size items if that is
\* not zero and batch_size items otherwise.
BatchSizes ==
    (gstate \in {"suspended", "done"} /\ bsize > 0) =>
        /\ \A j \in 1..Len(batches) : Len(batches[j]) >= 1 /\ Len(batches[j]) <= bsize
        /\ \A j \in 1..(Len(batches) - 1) : Len(batches[j]) = bsize
        /\ (gstate = "done" /\ batches # <<>>) =>
              Len(batches[Len(batches)]) =
                  IF Len(items) % bsize # 0 THEN Len(items) % bsize ELSE bsize

\* C9 witness: an exhausted generator whose last batch is a full one, and
\* not the only one.
BatchSizesWitness ==
    /\ gstate = "done"
    /\ bsize = 2
    /\ Len(items) = 4
    /\ Len(batches) = 2
    /\ Len(batches[2]) = 2

\* C10 (as claimed): a generator made with a batch size of zero or less, once
\* it has ended, has raised an invalid-argument error and produced no batch.
BatchRejectsNonPositive ==
    (bsize <= 0 /\ gstate \in {"done", "raised"}) =>
        /\ gstate = "raised"
        /\ berr = "ValueError"
        /\ batches = <<>>

\* C11: for a positive batch size and an empty list the first production
\* step finds the generator exhausted: no batch is produced, not even an
\* empty one.
BatchEmptyInput ==
    (bsize > 0 /\ items = <<>> /\ gstate \notin {"none", "created"}) =>
        /\ gstate = "done"
        /\ batches = <<>>

\* C11 witness: a generator over the empty list has taken its first
\* production step.
BatchEmptyInputWitness ==
    /\ items = <<>>
    /\ bsize = 2
    /\ gstate = "done"
    /\ batches = <<>>

\* C12 (as claimed): the call batch_generator(items, k) with k <= 0 raises
\* itself, so the caller never holds a generator that has yet to take its
\* first production step and whose batch size is not positive.
BatchErrorImmediate ==
    gstate = "created" => bsize > 0

\* C13: for a positive batch size the cursor starts at 0, never decreases,
\* has advanced by batch_size once for each batch produced, every batch was
\* produced at an offset below len(items), and production ends at the step
\* that finds the cursor to have reached (or passed) len(items).
BatchCursor ==
    /\ []((gstate = "created" /\ bsize > 0) => rng.cur = 0)
    /\ []((gstate \in {"suspended", "done"} /\ bsize > 0) =>
            /\ rng.cur = bsize * Len(batches)
            /\ \A j \in 1..Len(batches) : (j - 1) * bsize < Len(items)
            /\ gstate = "done" => rng.cur >= Len(items))
    /\ [][bsize' > 0 =>
            /\ rng'.cur >= rng.cur
            /\ batches' # batches =>
                  /\ rng.cur < Len(items)
                  /\ rng'.cur = rng.cur + bsize
                  /\ Len(batches') = Len(batches) + 1
            /\ (gstate # "done" /\ gstate' = "done") => rng.cur >= Len(items)]_vars

\* C13 witness: the cursor passed the end of a list whose length is not a
\* multiple of the batch size.
BatchCursorWitness ==
    /\ gstate = "done"
    /\ bsize = 2
    /\ Len(items) = 3
    /\ rng.cur = 4
    /\ Len(batches) = 2

\* C14: for a positive batch size the generator is exhausted after exactly
\* ceil(len(items) / batch_size) productions, and an exhausted generator
\* stays exhausted: a production step requested of it yields no batch.
BatchFinite ==
    /\ []((gstate = "done" /\ bsize > 0) =>
            Len(batches) = (Len(items) + bsize - 1) \div bsize)
    /\ [][gstate = "done" => (gstate' = "done" /\ batches' = batches)]_vars

\* C14 witness: production steps were requested of an exhausted generator
\* that had produced several batches.
BatchFiniteWitness ==
    /\ gstate = "done"
    /\ bsize > 0
    /\ bextra = 2
    /\ Len(batches) >= 2

(***************************************************************************)
(* batch_generator over a list its caller changes (SpecBatchMut).  The     *)
(* generator holds a reference to the caller's list, not a copy: len is    *)
(* read once, when range is made at the first production step, and each    *)
(* slice is taken from the list as it is when its step runs.               *)
(***************************************************************************)
\* The item the caller appends, unlike every item of the list as passed.
Fresh == 0

\* s without its item at index j (del s[j - 1], s.pop(j - 1)).
RemoveAt(s, j) == SubSeq(s, 1, j - 1) \o SubSeq(s, j + 1, Len(s))

\* The caller appends to the list between two production steps.  (A change
\* before the first step is a generator made over the changed list.)
BatchAppend ==
    /\ gstate = "suspended"
    /\ Len(items) < MaxLen
    /\ items' = Append(items, Fresh)
    /\ UNCHANGED <<bsize, gstate, rng, batches, berr, bextra, removed>>
    /\ UNCHANGED <<memoVars, fibVars, concVars, fileVars, appVars>>

\* The caller removes an item of the list between two production steps.
BatchRemove(j) ==
    /\ gstate = "suspended"
    /\ j \in 1..Len(items)
    /\ items' = RemoveAt(items, j)
    /\ removed' = TRUE
    /\ UNCHANGED <<bsize, gstate, rng, batches, berr, bextra>>
    /\ UNCHANGED <<memoVars, fibVars, concVars, fileVars, appVars>>

NextBatchMut ==
    \/ \E S \in ListsUpTo(MaxLen), k \in (0 - MaxNeg)..MaxBatch : BatchCreate(S, k)
    \/ BatchFirstNext
    \/ BatchNext
    \/ BatchAfterEnd
    \/ BatchAppend
    \/ \E j \in 1..MaxLen : BatchRemove(j)

SpecBatchMut == InitBatch /\ [][NextBatchMut]_vars

\* The items appended by the caller that were produced in some batch.
FreshProduced == \E j \in 1..Len(batches) : \E i \in 1..Len(batches[j]) : batches[j][i] = Fresh

LF == "LF"
Whitespace == {" ", LF}

\* The text of a line without its terminator: blank, plain, with leading,
\* trailing and interior whitespace.
Contents == {<<>>, <<"a">>, <<" ", "a">>, <<"a", " ">>, <<"a", " ", "a">>}

\* A line of the file: text that decodes as utf-8, or bytes that do not.
BadLine == [text |-> <<>>, ok |-> FALSE]
SourceLines == {[text |-> c, ok |-> TRUE] : c \in Contents} \cup {BadLine}

\* The files of at most n lines.
Sources(n) == UNION {[1..m -> SourceLines] : m \in 0..n}

\* The line as iteration over the file gives it: with its terminator.
Raw(line) == line.text \o <<LF>>

RECURSIVE LStrip(_)
LStrip(s) == IF s # <<>> /\ Head(s) \in Whitespace THEN LStrip(Tail(s)) ELSE s

RECURSIVE RStrip(_)
RStrip(s) ==
    IF s # <<>> /\ s[Len(s)] \in Whitespace THEN RStrip(SubSeq(s, 1, Len(s) - 1)) ELSE s

\* line.strip(): whitespace is removed at both ends.
Strip(s) == RStrip(LStrip(s))

\* Variant: the loop ends one line early.
AtEndEarly(n, lines) == n + 1 >= Len(lines)

\* for line in file: the file has no line left.
AtEnd(n, lines) == n >= Len(lines)

\* Variant: a decoder that lets undecodable bytes pass (errors='ignore').
DecodeIgnoresErrors(n, lines) == FALSE

\* Reading line n + 1 decodes the chunk of the file that holds it: decoding
\* fails if that line is undecodable, and can fail if a later line is, as
\* the chunk may hold that line too.
DecodeMustFail(n, lines) == ~lines[n + 1].ok
DecodeMayFail(n, lines) == \E j \in (n + 1)..Len(lines) : ~lines[j].ok

InitFile ==
    /\ func = [w \in Wrappers |-> [a \in HashTuples |-> 0]]
    /\ cfunc = [a \in HashTuples |-> 0]
    /\ MemoIdle
    /\ FibIdle
    /\ ConcIdle
    /\ BatchIdle
    /\ FileIdle
    /\ AppIdle

\* Variant: an ordinary function, which opens the file when it is called.
FileCreateEager(S, ok) ==
    /\ fstate = "none"
    /\ src' = S
    /\ openable' = ok
    /\ fstate' = "created"
    /\ attempts' = attempts + 1
    /\ opens' = IF ok THEN opens + 1 ELSE opens
    /\ fopen' = ok
    /\ UNCHANGED <<pos, out, ferr, closes, cons, fextra>>
    /\ UNCHANGED <<memoVars, fibVars, concVars, batchVars, appVars>>

\* read_large_file(path): the generator object is made, no code of the body runs.
FileCreate(S, ok) ==
    /\ fstate = "none"
    /\ src' = S
    /\ openable' = ok
    /\ fstate' = "created"
    /\ UNCHANGED <<fopen, pos, out, ferr, attempts, opens, closes, cons, fextra>>
    /\ UNCHANGED <<memoVars, fibVars, concVars, batchVars, appVars>>

\* Variant: the with block is left without closing the file.
WithExitLeak == fopen' = fopen /\ closes' = closes

\* The with block is left: the file is closed.
WithExit == fopen' = FALSE /\ closes' = closes + 1

\* One turn of the for loop: the loop ends and the with block is left; or
\* reading the next line raises and the exception leaves the with block; or
\* the stripped line is yielded, the body suspended with the file open.
ReadTurn ==
    IF AtEnd(pos, src)
    THEN /\ WithExit
         /\ fstate' = "done"
         /\ UNCHANGED <<pos, out, ferr>>
    ELSE \/ /\ DecodeMayFail(pos, src)
            /\ WithExit
            /\ fstate' = "raised"
            /\ ferr' = "UnicodeDecodeError"
            /\ UNCHANGED <<pos, out>>
         \/ /\ ~DecodeMustFail(pos, src)
            /\ out' = Append(out, Strip(Raw(src[pos + 1])))
            /\ pos' = pos + 1
            /\ fopen' = TRUE
            /\ fstate' = "suspended"
            /\ UNCHANGED <<closes, ferr>>

\* Variant: a failed open is swallowed and the generator just ends.
OpenErrorSwallowed ==
    /\ fstate' = "done"
    /\ UNCHANGED <<fopen, pos, out, ferr, opens, closes>>

\* open raises (the file cannot be opened): the exception leaves the body
\* before the with block is entered.
OpenError ==
    /\ fstate' = "raised"
    /\ ferr' = "FileNotFoundError"
    /\ UNCHANGED <<fopen, pos, out, opens, closes>>

\* The first production step: open is called, then the loop takes its first turn.
FileFirstNext ==
    /\ cons = "reading"
    /\ fstate = "created"
    /\ attempts' = attempts + 1
    /\ IF openable
       THEN opens' = opens + 1 /\ ReadTurn
       ELSE OpenError
    /\ UNCHANGED <<src, openable, cons, fextra>>
    /\ UNCHANGED <<memoVars, fibVars, concVars, batchVars, appVars>>

\* A later production step: the body resumes after the yield.
FileNext ==
    /\ cons = "reading"
    /\ fstate = "suspended"
    /\ ReadTurn
    /\ UNCHANGED <<src, openable, attempts, opens, cons, fextra>>
    /\ UNCHANGED <<memoVars, fibVars, concVars, batchVars, appVars>>

\* A production step on a generator that has ended: StopIteration, and
\* nothing of the generator changes (open is not called again).
FileAfterEnd ==
    /\ cons = "reading"
    /\ fstate \in {"done", "raised", "closed"}
    /\ fextra < MaxExtra
    /\ fextra' = fextra + 1
    /\ UNCHANGED <<src, openable, fstate, fopen, pos, out, ferr, attempts, opens,
                   closes, cons>>
    /\ UNCHANGED <<memoVars, fibVars, concVars, batchVars, appVars>>

\* Variant: closing the generator does not unwind the with block.
GenCloseNoExit ==
    /\ fstate' = "closed"
    /\ UNCHANGED <<fopen, closes>>

\* close() of the generator: a suspended body gets GeneratorExit at its
\* yield, which leaves the with block; a body never started just ends.
GenClose ==
    /\ fstate' = "closed"
    /\ IF fstate = "suspended" THEN WithExit ELSE UNCHANGED <<fopen, closes>>

\* The consumer closes the generator.
FileClose ==
    /\ cons = "reading"
    /\ fstate \in {"created", "suspended"}
    /\ GenClose
    /\ UNCHANGED <<src, openable, pos, out, ferr, attempts, opens, cons, fextra>>
    /\ UNCHANGED <<memoVars, fibVars, concVars, batchVars, appVars>>

\* The consumer stops reading: it keeps the generator object, or drops its
\* last reference to it.
FileAbandon(keep) ==
    /\ cons = "reading"
    /\ fstate \in {"created", "suspended"}
    /\ cons' = IF keep THEN "kept" ELSE "dropped"
    /\ UNCHANGED <<src, openable, fstate, fopen, pos, out, ferr, attempts, opens,
                   closes, fextra>>
    /\ UNCHANGED <<memoVars, fibVars, concVars, batchVars, appVars>>

\* The collector finalizes a dropped generator: it closes it.
FileCollect ==
    /\ cons = "dropped"
    /\ fstate \in {"created", "suspended"}
    /\ GenClose
    /\ UNCHANGED <<src, openable, pos, out, ferr, attempts, opens, cons, fextra>>
    /\ UNCHANGED <<memoVars, fibVars, concVars, batchVars, appVars>>

NextFile ==
    \/ \E S \in Sources(MaxLines), ok \in BOOLEAN : FileCreate(S, ok)
    \/ FileFirstNext
    \/ FileNext
    \/ FileAfterEnd
    \/ FileClose
    \/ \E keep \in BOOLEAN : FileAbandon(keep)
    \/ FileCollect

SpecFile == InitFile /\ [][NextFile]_vars

\* C15: the items received are, in order, one for each line read so far
\* (blank lines included), at most one more after each step, and a generator
\* that ran to exhaustion over a file of N lines has yielded exactly N items.
FileYieldsAllLines ==
    /\ [](/\ Len(out) = pos
          /\ pos <= Len(src)
          /\ \A j \in 1..Len(out) : src[j].ok /\ out[j] = Strip(Raw(src[j]))
          /\ fstate = "done" => Len(out) = Len(src))
    /\ [][Len(out') <= Len(out) + 1 /\ SubSeq(out', 1, Len(out)) = out]_vars

\* C15 witness: a file of two lines, the first blank, was read to exhaustion,
\* and the blank line was yielded as an (empty) item.
FileYieldsAllLinesWitness ==
    /\ fstate = "done"
    /\ Len(src) = 2
    /\ src[1].text = <<>>
    /\ src[2].text = <<"a">>
    /\ out = <<(<<>>), <<"a">>>>

\* C16 (as claimed): each item received is its line without the trailing
\* line terminator, the rest of the line (leading and interior whitespace
\* included) unchanged.
FileItemsKeepContent ==
    \A j \in 1..Len(out) : out[j] = src[j].text

\* C17 (as claimed): in every state after the consumer has taken the Nth
\* item of a file of N lines, the file is closed.
FileClosedAfterLast ==
    (Len(src) >= 1 /\ Len(out) = Len(src)) => ~fopen

\* C17 (amended): the file is closed by the production step after the Nth
\* item, the one that finds the file exhausted, and stays closed from then
\* on; while the generator is suspended at a yield, the Nth included, the
\* file is open.
FileClosedAtExhaustion ==
    /\ [](/\ fstate = "done" => (~fopen /\ closes = 1 /\ Len(out) = Len(src))
          /\ fstate = "suspended" => fopen)
    /\ [][fstate = "done" => (fstate' = "done" /\ ~fopen')]_vars

\* C17 witness: a file of two lines was read to exhaustion, and further
\* production steps were requested.
FileClosedAtExhaustionWitness ==
    /\ fstate = "done"
    /\ Len(src) = 2
    /\ Len(out) = 2
    /\ fextra >= 1
    /\ ~fopen

\* C18 (as claimed): no final state has the consumer stopped before the end
\* of the file and the file open.
FileAbandonedReleased ==
    (cons # "reading" /\ pos < Len(src) /\ ~ENABLED NextFile) => ~fopen

FileOpenFailure ==
    ~openable =>
        /\ out = <<>>
        /\ ~fopen
        /\ opens = 0
        /\ attempts <= 1
        /\ attempts = 1 <=> (fstate = "raised" /\ ferr = "FileNotFoundError")
        /\ fstate \notin {"suspended", "done"}

\* C20 witness: open failed, and production steps were requested again.
FileOpenFailureWitness ==
    /\ ~openable
    /\ fstate = "raised"
    /\ attempts = 1
    /\ fextra = 2

\* C21: an undecodable line is never skipped: no line at or after it is
\* ever produced; a production step that has to decode it raises the
\* decoding error to the consumer in that same step, produces nothing then or
\* later, and leaves the file closed.
FileDecodeError ==
    /\ [](\A j \in 1..Len(src) : ~src[j].ok => pos < j)
    /\ [](ferr = "UnicodeDecodeError" =>
            /\ fstate = "raised"
            /\ ~fopen
            /\ closes = opens)
    /\ [][((FileFirstNext \/ FileNext) /\ openable /\ ~AtEnd(pos, src)
            /\ ~src[pos + 1].ok) =>
               /\ ferr' = "UnicodeDecodeError"
               /\ fstate' = "raised"
               /\ out' = out
               /\ ~fopen']_vars
    /\ [][fstate = "raised" => (fstate' = "raised" /\ out' = out /\ ~fopen')]_vars

\* C21 witness: the second line of a file is undecodable; the first was
\* produced, the next step raised, and a further step was requested.
FileDecodeErrorWitness ==
    /\ Len(src) = 2
    /\ src[1].ok
    /\ ~src[2].ok
    /\ Len(out) = 1
    /\ ferr = "UnicodeDecodeError"
    /\ fextra >= 1
    /\ ~fopen

\* C28: calling read_large_file opens nothing; the file is opened by the
\* first production step and by no other step; it is open whenever the
\* generator is suspended, and a step that closes it ends the generator
\* (exhaustion, close or error).
FileOpenedLazily ==
    /\ [](fstate \in {"none", "created"} => (~fopen /\ attempts = 0 /\ opens = 0))
    /\ [](fstate = "suspended" => (fopen /\ opens = 1 /\ closes = 0))
    /\ [][opens' # opens => (fstate = "created" /\ fstate' # "created" /\ FileFirstNext)]_vars
    /\ [][(fopen /\ ~fopen') => fstate' \in {"done", "closed", "raised"}]_vars
    /\ [][(fstate = "suspended" /\ fstate' = "suspended") => (fopen /\ fopen')]_vars

\* C28 witness: the generator is suspended after its second item, the file
\* still open.
FileOpenedLazilyWitness ==
    /\ fstate = "suspended"
    /\ Len(src) = 2
    /\ pos = 2
    /\ fopen
    /\ opens = 1

(***************************************************************************)
(* The retry wrappers (SpecRetry).                                         *)
(*   retry_decorator(max_attempts)(func), called:                          *)
(*       for attempt in range(max_attempts):                               *)
(*           try: return func(...)                                         *)
(*           except Exception as e:                                        *)
(*               if attempt == max_attempts - 1: raise                     *)
(*   retry_operation(max_retries):                                         *)
(*       for attempt in range(max_retries):                                *)
(*           try: result = perform_network_request(); return result        *)
(*           except ConnectionError as e:                                  *)
(*               if attempt < max_retries - 1: continue                    *)
(*               else: raise                                               *)
(* One step is one turn of the loop, that is one invocation of the         *)
(* operation.                                                              *)
(***************************************************************************)
RetryKinds == {"decorator", "operation"}

\* What an invocation of the operation does.  perform_network_request
\* returns or raises ConnectionError; a decorated function returns or raises
\* anything: exceptions that are an Exception, and ones that are not.
Ok == "ok"
Raised(kind) ==
    IF kind = "operation"
    THEN {"ConnectionError"}
    ELSE {"ValueError", "KeyError", "KeyboardInterrupt"}

\* Whether the except clause of the wrapper catches exception e.
Caught(kind, e) ==
    IF kind = "operation" THEN e = "ConnectionError" ELSE e # "KeyboardInterrupt"

\* Variant: no attempt is taken for the last, so nothing is re-raised.
IsLastNever(attempt, limit) == FALSE

\* attempt == max_attempts - 1 (in retry_operation: not attempt < max_retries - 1)
IsLast(attempt, limit) == attempt = limit - 1

\* The wrapper is called: the loop is about to start.
RetryCall(kind, limit) ==
    /\ rpc = "idle"
    /\ rkind' = kind
    /\ rlimit' = limit
    /\ rattempt' = 0
    /\ rpc' = "loop"
    /\ UNCHANGED <<rhist, rout>>
    /\ UNCHANGED <<coreVars, cfgVars, fmVars, bankVars, orderVars>>

\* The range is exhausted on entry of a turn: the function falls off its
\* end and returns None.
RetryFallOff ==
    /\ rpc = "loop"
    /\ rattempt >= rlimit
    /\ rpc' = "returned"
    /\ rout' = [kind |-> "None", of |-> 0]
    /\ UNCHANGED <<rkind, rlimit, rattempt, rhist>>
    /\ UNCHANGED <<coreVars, cfgVars, fmVars, bankVars, orderVars>>

\* A turn in which the operation returns: its result is returned.
RetrySuccess ==
    /\ rpc = "loop"
    /\ rattempt < rlimit
    /\ rhist' = Append(rhist, Ok)
    /\ rpc' = "returned"
    /\ rout' = [kind |-> "result", of |-> rattempt + 1]
    /\ UNCHANGED <<rkind, rlimit, rattempt>>
    /\ UNCHANGED <<coreVars, cfgVars, fmVars, bankVars, orderVars>>

\* A turn in which the operation raises e: an exception the except clause
\* does not catch leaves the wrapper; one it catches is re-raised on the
\* last attempt, and otherwise the loop goes on.
RetryFailure(e) ==
    /\ rpc = "loop"
    /\ rattempt < rlimit
    /\ e \in Raised(rkind)
    /\ rhist' = Append(rhist, e)
    /\ IF ~Caught(rkind, e) \/ IsLast(rattempt, rlimit)
       THEN /\ rpc' = "raised"
            /\ rout' = [kind |-> e, of |-> rattempt + 1]
            /\ UNCHANGED rattempt
       ELSE /\ rattempt' = rattempt + 1
            /\ UNCHANGED <<rpc, rout>>
    /\ UNCHANGED <<rkind, rlimit>>
    /\ UNCHANGED <<coreVars, cfgVars, fmVars, bankVars, orderVars>>

InitApp ==
    /\ CoreIdle
    /\ AppIdle

NextRetry ==
    \/ \E kind \in RetryKinds, limit \in 0..MaxRetry : RetryCall(kind, limit)
    \/ RetryFallOff
    \/ RetrySuccess
    \/ \E e \in Raised("operation") \cup Raised("decorator") : RetryFailure(e)

SpecRetry == InitApp /\ [][NextRetry]_vars

\* C22: with a positive limit the operation is invoked at most limit times;
\* the wrapper returns at the first attempt that succeeds, with that
\* attempt's result, the operation having been invoked exactly as often as
\* the number of that attempt; when limit attempts have all failed the
\* wrapper has raised the exception of the last of them; and nothing is
\* invoked after the wrapper has returned or raised.
RetryContract ==
    /\ [](rlimit > 0 =>
            /\ Len(rhist) <= rlimit
            /\ rattempt < rlimit
            /\ rpc = "loop" =>
                  /\ Len(rhist) = rattempt
                  /\ \A j \in 1..Len(rhist) : rhist[j] # Ok
            /\ rpc = "returned" =>
                  /\ rout = [kind |-> "result", of |-> Len(rhist)]
                  /\ rhist[Len(rhist)] = Ok
                  /\ \A j \in 1..(Len(rhist) - 1) : rhist[j] # Ok
            /\ (Len(rhist) = rlimit /\ \A j \in 1..rlimit : rhist[j] # Ok) =>
                  /\ rpc = "raised"
                  /\ rout = [kind |-> rhist[rlimit], of |-> rlimit]
            /\ rpc = "raised" =>
                  /\ rout = [kind |-> rhist[Len(rhist)], of |-> Len(rhist)]
                  /\ \A j \in 1..Len(rhist) : rhist[j] # Ok)
    /\ [][(rpc # "loop" /\ rpc # "idle") => (rhist' = rhist /\ rout' = rout)]_vars

\* C22 witness: retry_decorator with a limit of three; two attempts failed
\* with different exceptions and the third succeeded.
RetryContractWitness ==
    /\ rkind = "decorator"
    /\ rlimit = 3
    /\ rhist = <<"ValueError", "KeyError", Ok>>
    /\ rpc = "returned"
    /\ rout = [kind |-> "result", of |-> 3]

(***************************************************************************)
(* Config (SpecConfig): a class that hands out one instance.               *)
(*   __new__ : makes the instance if _instance is None, with               *)
(*             _initialized = False, and returns _instance                 *)
(*   __init__: returns at once if _initialized; otherwise sets it and      *)
(*             assigns the default settings                                *)
(*   get/set : walk the settings along key.split('.')                      *)
(* The settings are a tree of dicts: the value at a path is "absent" (no   *)
(* such key), "dict", or a leaf value; only a dict has paths below it.     *)
(***************************************************************************)
Dot == "."

\* The settings assigned by __init__.
Defaults ==
    [p \in Paths |->
        CASE p = <<"debug">> -> "False"
          [] p = <<"database">> -> "dict"
          [] p = <<"database", "host">> -> "localhost"
          [] p = <<"database", "port">> -> "5432"
          [] p = <<"api_key">> -> "your-api-key"
          [] OTHER -> "absent"]

\* The values a caller passes to set, and the defaults it passes to get.
SetValues == {"None", "x", "dict"}
GetDefaults == {"None", "fallback"}

\* The paths a caller names: a leaf, a dict, a key inside the dict, a key
\* past a leaf, and absent keys at the top, in a dict, and below an absent key.
KeyPaths ==
    {<<"debug">>, <<"database">>, <<"database", "host">>, <<"debug", "host">>,
     <<"host">>, <<"database", "debug">>, <<"host", "port">>}

\* '.'.join(path): the dotted key of a path, as a string of tokens.
RECURSIVE Join(_)
Join(path) ==
    IF Len(path) <= 1 THEN path ELSE <<Head(path), Dot>> \o Join(Tail(path))

DottedKeys == {Join(path) : path \in KeyPaths}

\* key.split('.'): the pieces between the dots.
RECURSIVE Split(_)
Split(key) ==
    IF \E i \in 1..Len(key) : key[i] = Dot
    THEN LET i == CHOOSE i \in 1..Len(key) :
                    key[i] = Dot /\ \A j \in 1..(i - 1) : key[j] # Dot
         IN <<SubSeq(key, 1, i - 1)[1]>> \o Split(SubSeq(key, i + 1, Len(key)))
    ELSE <<key[1]>>

IsPrefix(p, q) == Len(p) <= Len(q) /\ SubSeq(q, 1, Len(p)) = p

\* The value reached after the first i keys: settings itself for i = 0.
NodeAt(root, S, keys, i) == IF i = 0 THEN root ELSE S[SubSeq(keys, 1, i)]

\* The loop of get, from the value reached after i keys: a dict is looked
\* up (a missing key gives None), anything else returns the default; after
\* the last key None gives the default.
RECURSIVE GetWalk(_, _, _, _, _)
GetWalk(root, S, keys, i, default) ==
    LET value == NodeAt(root, S, keys, i)
    IN IF i = Len(keys)
       THEN IF value \in {"None", "absent"} THEN default ELSE value
       ELSE IF value = "dict"
            THEN GetWalk(root, S, keys, i + 1, default)
            ELSE default

Get(root, S, key, default) == GetWalk(root, S, Split(key), 0, default)

\* set raises if the walk reaches a value that is not a dict: setdefault
\* is not an attribute of it, or the final item assignment fails.
SetRaises(root, S, keys) ==
    \E i \in 0..(Len(keys) - 1) : NodeAt(root, S, keys, i) \notin {"dict", "absent"}

\* Variant: the value is stored without the dicts that lead to it.
SetWithoutParents(S, keys, value) ==
    [q \in Paths |->
        IF q = keys THEN value
        ELSE IF IsPrefix(keys, q) THEN "absent"
        ELSE S[q]]

\* The settings after set: setdefault makes a dict for each missing key on
\* the way, the last key takes the value, and what the old value at the
\* path held below it is gone with it.
Set(S, keys, value) ==
    [q \in Paths |->
        IF q = keys THEN value
        ELSE IF IsPrefix(q, keys) THEN "dict"
        ELSE IF IsPrefix(keys, q) THEN "absent"
        ELSE S[q]]

\* The documents from_json_file can load: an empty object, an object with a
\* null inside, and a document that is not an object.
JsonDocs ==
    {[root |-> "dict", tree |-> EmptyDict],
     [root |-> "dict", tree |-> Set(EmptyDict, <<"database", "host">>, "None")],
     [root |-> "list", tree |-> EmptyDict]}

\* Variant: __init__ without its guard.
InitializedNever(flag) == FALSE

\* if self._initialized: return
Initialized(flag) == flag

\* What __init__ finds in _initialized: False on the instance __new__ has
\* just made, the instance's own flag otherwise.
FlagAtInit == IF inst = 0 THEN FALSE ELSE initialized

\* The settings after __init__: the defaults, unless the guard returned early.
AfterInit ==
    IF Initialized(FlagAtInit)
    THEN [root |-> sroot, tree |-> settings]
    ELSE [root |-> "dict", tree |-> Defaults]

\* cls(): __new__ then __init__.  A new object is numbered by the operation
\* that made it.
Construct ==
    /\ inst' = IF inst = 0 THEN cops + 1 ELSE inst
    /\ initialized' = TRUE
    /\ installs' = IF Initialized(FlagAtInit) THEN installs ELSE installs + 1
    /\ refs' = refs \cup {inst'}

\* Config()
ConfigNew ==
    /\ cops < MaxOps
    /\ cops' = cops + 1
    /\ Construct
    /\ sroot' = AfterInit.root
    /\ settings' = AfterInit.tree
    /\ clast' = [op |-> "new", key |-> <<>>, val |-> "None", res |-> "instance"]
    /\ UNCHANGED <<coreVars, retryVars, fmVars, bankVars, orderVars>>

\* Config.from_json_file(filepath): cls(), then the settings are replaced by
\* the loaded document, unless open or json.load raises.
ConfigFromJson(doc, ok) ==
    /\ cops < MaxOps
    /\ cops' = cops + 1
    /\ Construct
    /\ sroot' = IF ok THEN doc.root ELSE AfterInit.root
    /\ settings' = IF ok THEN doc.tree ELSE AfterInit.tree
    /\ clast' = [op |-> "from_json_file", key |-> <<>>, val |-> "None",
                 res |-> IF ok THEN "instance" ELSE "raise"]
    /\ UNCHANGED <<coreVars, retryVars, fmVars, bankVars, orderVars>>

\* config.get(key, default), on the instance
ConfigGet(key, default) ==
    /\ inst # 0
    /\ cops < MaxOps
    /\ cops' = cops + 1
    /\ clast' = [op |-> "get", key |-> key, val |-> default,
                 res |-> Get(sroot, settings, key, default)]
    /\ UNCHANGED <<inst, initialized, sroot, settings, installs, refs>>
    /\ UNCHANGED <<coreVars, retryVars, fmVars, bankVars, orderVars>>

\* config.set(key, value), on the instance
ConfigSet(key, value) ==
    /\ inst # 0
    /\ cops < MaxOps
    /\ cops' = cops + 1
    /\ IF SetRaises(sroot, settings, Split(key))
       THEN /\ clast' = [op |-> "set", key |-> key, val |-> value, res |-> "raise"]
            /\ UNCHANGED settings
       ELSE /\ clast' = [op |-> "set", key |-> key, val |-> value, res |-> "None"]
            /\ settings' = Set(settings, Split(key), value)
    /\ UNCHANGED <<inst, initialized, sroot, installs, refs>>
    /\ UNCHANGED <<coreVars, retryVars, fmVars, bankVars, orderVars>>

NextConfig ==
    \/ ConfigNew
    \/ \E doc \in JsonDocs, ok \in BOOLEAN : ConfigFromJson(doc, ok)
    \/ \E key \in DottedKeys, default \in GetDefaults : ConfigGet(key, default)
    \/ \E key \in DottedKeys, value \in SetValues : ConfigSet(key, value)

SpecConfig == InitApp /\ [][NextConfig]_vars

\* C23: all constructions have returned one object, the instance of the
\* class; the defaults were assigned once, by the construction that made
\* that object; a later Config() leaves the settings as they are.
ConfigSingleton ==
    /\ [](/\ Cardinality(refs) <= 1
          /\ inst # 0 => (refs = {inst} /\ initialized /\ installs = 1)
          /\ inst = 0 => (refs = {} /\ installs = 0))
    /\ [][installs' # installs => (inst = 0 /\ installs' = 1)]_vars
    /\ [][(cops' # cops /\ clast'.op = "new" /\ inst # 0) =>
            /\ inst' = inst
            /\ settings' = settings
            /\ sroot' = sroot]_vars

\* C23 witness: Config() was called, a setting was changed by set, and
\* Config() was called again: the changed setting is still there.
ConfigSingletonWitness ==
    /\ cops = 3
    /\ clast.op = "new"
    /\ installs = 1
    /\ settings[<<"debug">>] = "x"
    /\ settings[<<"database", "host">>] = "localhost"

\* Whether every key before the last of the path leads to a dict or is absent.
Passable(root, S, keys) == ~SetRaises(root, S, keys)

\* C29: a set whose path passes only dicts and absent keys does not raise;
\* after it get of the same key returns the value set if it is not None,
\* every path that is neither on the way to the key nor below it has the
\* value it had, and the keys on the way are dicts.  A get returns the
\* default exactly where the path is missing, passes a value that is not a
\* dict, or holds None, and the value at the path otherwise.
ConfigRoundTrip ==
    /\ [][(cops' # cops /\ clast'.op = "set"
              /\ Passable(sroot, settings, Split(clast'.key))) =>
            LET keys == Split(clast'.key)
            IN /\ clast'.res = "None"
               /\ \A d \in GetDefaults :
                     Get(sroot', settings', clast'.key, d) =
                         IF clast'.val = "None" THEN d ELSE clast'.val
               /\ \A q \in Paths :
                     (~IsPrefix(q, keys) /\ ~IsPrefix(keys, q)) => settings'[q] = settings[q]
               /\ \A i \in 1..(Len(keys) - 1) : settings'[SubSeq(keys, 1, i)] = "dict"]_vars
    /\ [][(cops' # cops /\ clast'.op = "set"
              /\ ~Passable(sroot, settings, Split(clast'.key))) =>
            (clast'.res = "raise" /\ settings' = settings)]_vars
    /\ [](clast.op = "get" =>
            LET keys == Split(clast.key)
                blocked == \/ sroot # "dict"
                           \/ \E i \in 1..(Len(keys) - 1) :
                                 settings[SubSeq(keys, 1, i)] # "dict"
                           \/ settings[keys] \in {"absent", "None"}
            IN clast.res = IF blocked THEN clast.val ELSE settings[keys])

\* C29 witness: a value was set below a key that was absent, and the get
\* that followed returned it and not the default.
ConfigRoundTripWitness ==
    /\ cops = 3
    /\ clast = [op |-> "get", key |-> <<"host", Dot, "port">>, val |-> "fallback",
                res |-> "x"]
    /\ settings[<<"host">>] = "dict"
    /\ settings[<<"host", "port">>] = "x"
    /\ settings[<<"debug">>] = "False"

(***************************************************************************)
(* FileManager (SpecFM), used as  with FileManager(name, mode) as f: ...   *)
(* The with statement calls __enter__; if that raises, the block and       *)
(* __exit__ are skipped.  Otherwise the block runs, and __exit__ is called *)
(* when it ends or raises; an exception of the block goes on to the caller *)
(* unless __exit__ returns a true value.                                   *)
(***************************************************************************)
\* How a with block ends: normally, or with an exception.
BlockEnds == {"none", "ValueError", "KeyError"}

\* Variant: __exit__ returns True.
ExitReturnTrue == TRUE

\* return False, the last statement of __exit__
ExitReturn == FALSE

\* FileManager(filename, mode): self.file = None
FMNew ==
    /\ fmpc = "none"
    /\ fmpc' = "made"
    /\ fmfile' = "None"
    /\ UNCHANGED <<fmexc, fmopens, fmcloses, fmleft, fmuses>>
    /\ UNCHANGED <<coreVars, retryVars, cfgVars, bankVars, orderVars>>

\* The with statement starts: __enter__ opens the file, or open raises and
\* the with statement is over.
FMEnter(ok) ==
    /\ fmpc \in {"made", "left"}
    /\ fmuses < MaxUses
    /\ fmuses' = fmuses + 1
    /\ IF ok
       THEN /\ fmfile' = "open"
            /\ fmopens' = fmopens + 1
            /\ fmpc' = "block"
            /\ fmexc' = "none"
            /\ UNCHANGED fmleft
       ELSE /\ fmpc' = "left"
            /\ fmexc' = "FileNotFoundError"
            /\ fmleft' = Append(fmleft, "enter_failed")
            /\ UNCHANGED <<fmfile, fmopens>>
    /\ UNCHANGED fmcloses
    /\ UNCHANGED <<coreVars, retryVars, cfgVars, bankVars, orderVars>>

\* The block closes the file itself.
FMBlockClose ==
    /\ fmpc = "block"
    /\ fmfile = "open"
    /\ fmfile' = "closed"
    /\ UNCHANGED <<fmpc, fmexc, fmopens, fmcloses, fmleft, fmuses>>
    /\ UNCHANGED <<coreVars, retryVars, cfgVars, bankVars, orderVars>>

\* The block ends with e: __exit__ closes self.file if it is set, and its
\* return value decides whether e goes on to the caller.
FMExit(e) ==
    /\ fmpc = "block"
    /\ IF fmfile # "None"
       THEN fmfile' = "closed" /\ fmcloses' = fmcloses + 1
       ELSE UNCHANGED <<fmfile, fmcloses>>
    /\ fmleft' = Append(fmleft, e)
    /\ fmexc' = IF ExitReturn THEN "none" ELSE e
    /\ fmpc' = "left"
    /\ UNCHANGED <<fmopens, fmuses>>
    /\ UNCHANGED <<coreVars, retryVars, cfgVars, bankVars, orderVars>>

NextFM ==
    \/ FMNew
    \/ \E ok \in BOOLEAN : FMEnter(ok)
    \/ FMBlockClose
    \/ \E e \in BlockEnds : FMExit(e)

SpecFM == InitApp /\ [][NextFM]_vars

\* C24: the file is open only inside the with block; whenever the block
\* has been left, normally or by an exception, the file is closed, __exit__
\* having called close once for each open; the exception of the block, if
\* any, is the one the caller gets; and a with statement whose __enter__
\* failed has called close on nothing and passes the error of open on.
FMClosesOnExit ==
    /\ [](/\ fmfile = "open" => fmpc = "block"
          /\ fmpc = "block" => fmcloses = fmopens - 1
          /\ fmpc = "left" => (fmfile # "open" /\ fmcloses = fmopens)
          /\ fmpc = "left" => Len(fmleft) = fmuses
          /\ (fmpc = "left" /\ fmleft[fmuses] # "enter_failed") =>
                (fmfile = "closed" /\ fmexc = fmleft[fmuses])
          /\ (fmpc = "left" /\ fmleft[fmuses] = "enter_failed") =>
                fmexc = "FileNotFoundError")
    /\ [][(fmpc = "block" /\ fmpc' = "left") =>
            (fmcloses' = fmcloses + 1 /\ fmfile' = "closed")]_vars
    /\ [][(fmuses' # fmuses /\ fmpc' = "left") =>
            (fmcloses' = fmcloses /\ fmfile' = fmfile /\ fmopens' = fmopens)]_vars

\* C24 witness: a block that raised was left with the file closed and the
\* exception passed on, and the next with statement failed to open.
FMClosesOnExitWitness ==
    /\ fmuses = 2
    /\ fmpc = "left"
    /\ fmleft = <<"ValueError", "enter_failed">>
    /\ fmfile = "closed"
    /\ fmopens = 1
    /\ fmcloses = 1

(***************************************************************************)
(* BankAccount (SpecBank).  Amounts are whole numbers here; the checks of  *)
(* the code are comparisons and the updates one addition or subtraction.   *)
(***************************************************************************)
Amounts == (0 - MaxNeg)..MaxAmount

\* Variant: a withdrawal that does not look at the balance.
CoversAlways(b, amount) == TRUE

\* self.__balance >= amount
Covers(b, amount) == b >= amount

\* BankAccount(owner, balance): the balance is stored as given.
BankNew(b) ==
    /\ ~binit.made
    /\ balance' = b
    /\ binit' = [made |-> TRUE, balance |-> b]
    /\ UNCHANGED <<blast, bops>>
    /\ UNCHANGED <<coreVars, retryVars, cfgVars, fmVars, orderVars>>

\* deposit(amount)
Deposit(amount) ==
    /\ binit.made
    /\ bops < MaxBankOps
    /\ bops' = bops + 1
    /\ IF amount > 0
       THEN /\ balance' = balance + amount
            /\ blast' = [op |-> "deposit", amount |-> amount, outcome |-> "None",
                         before |-> balance]
       ELSE /\ blast' = [op |-> "deposit", amount |-> amount, outcome |-> "ValueError",
                         before |-> balance]
            /\ UNCHANGED balance
    /\ UNCHANGED binit
    /\ UNCHANGED <<coreVars, retryVars, cfgVars, fmVars, orderVars>>

\* withdraw(amount)
Withdraw(amount) ==
    /\ binit.made
    /\ bops < MaxBankOps
    /\ bops' = bops + 1
    /\ IF amount <= 0
       THEN /\ blast' = [op |-> "withdraw", amount |-> amount, outcome |-> "ValueError",
                         before |-> balance]
            /\ UNCHANGED balance
       ELSE IF Covers(balance, amount)
            THEN /\ balance' = balance - amount
                 /\ blast' = [op |-> "withdraw", amount |-> amount, outcome |-> "True",
                              before |-> balance]
            ELSE /\ blast' = [op |-> "withdraw", amount |-> amount, outcome |-> "False",
                              before |-> balance]
                 /\ UNCHANGED balance
    /\ UNCHANGED binit
    /\ UNCHANGED <<coreVars, retryVars, cfgVars, fmVars, orderVars>>

NextBank ==
    \/ \E b \in Amounts : BankNew(b)
    \/ \E amount \in Amounts : Deposit(amount)
    \/ \E amount \in Amounts : Withdraw(amount)

SpecBank == InitApp /\ [][NextBank]_vars

\* C26: an account created with a balance that is not negative never has a
\* negative balance; a deposit or a withdrawal of an amount that is not
\* positive raises and leaves the balance as it was; a withdrawal of more
\* than the balance returns False and leaves the balance as it was; every
\* other call adds or takes exactly the amount.
BankNonNegative ==
    /\ (binit.made /\ binit.balance >= 0) => balance >= 0
    /\ (blast.op # "none" /\ blast.amount <= 0) =>
          (blast.outcome = "ValueError" /\ balance = blast.before)
    /\ (blast.op = "withdraw" /\ blast.amount > 0 /\ blast.amount > blast.before) =>
          (blast.outcome = "False" /\ balance = blast.before)
    /\ (blast.op = "withdraw" /\ blast.amount > 0 /\ blast.amount <= blast.before) =>
          (blast.outcome = "True" /\ balance = blast.before - blast.amount)
    /\ (blast.op = "deposit" /\ blast.amount > 0) =>
          (blast.outcome = "None" /\ balance = blast.before + blast.amount)

\* C26 witness: an account created with a balance of one was emptied, and a
\* further withdrawal was refused.
BankNonNegativeWitness ==
    /\ binit = [made |-> TRUE, balance |-> 1]
    /\ bops = 3
    /\ blast = [op |-> "withdraw", amount |-> 1, outcome |-> "False", before |-> 0]
    /\ balance = 0

(***************************************************************************)
(* OrderService.process_order (SpecOrder).                                 *)
(*   if not self.validator.validate(order): return False                   *)
(*   final_total = apply_discount(order, self.discount_strategy)           *)
(*   order.total = final_total                                             *)
(*   self.persistence.save(order)                                          *)
(*   return True                                                           *)
(* Amounts are counted in a unit small enough that halving a total once   *)
(* in each call leaves a whole number of units.                            *)
(***************************************************************************)
Unit == 2 ^ MaxProcess
Totals == {Unit * t : t \in (0 - 1)..MaxTotal}
ItemLists == {<<>>, <<"item">>}

\* NoDiscount(), PercentageDiscount(p), FixedAmountDiscount(a)
Strategies ==
    {[kind |-> "no", arg |-> 0]}
        \cup {[kind |-> "percentage", arg |-> pc] : pc \in {50, 100}}
        \cup {[kind |-> "fixed", arg |-> a] : a \in {Unit, 2 * Unit}}

\* strategy.calculate_discount(total)
CalculateDiscount(strategy, total) ==
    CASE strategy.kind = "percentage" -> (total * strategy.arg) \div 100
      [] strategy.kind = "fixed" -> Min(strategy.arg, total)
      [] OTHER -> 0

\* apply_discount(order, strategy)
ApplyDiscount(total, strategy) == total - CalculateDiscount(strategy, total)

\* Variant: a validator that accepts every order.
ValidateAlways(total, its) == TRUE

\* OrderValidator.validate(order)
Validate(total, its) ==
    IF total <= 0 THEN FALSE
    ELSE IF its = <<>> THEN FALSE
    ELSE TRUE

\* An order and a service with one of the strategies are made.
OrderNew(total, its, strategy) ==
    /\ ostrategy = NoStrategy
    /\ ototal' = total
    /\ oitems' = its
    /\ ostrategy' = strategy
    /\ UNCHANGED <<saved, olast, oops>>
    /\ UNCHANGED <<coreVars, retryVars, cfgVars, fmVars, bankVars>>

\* service.process_order(order); save receives the order after its total
\* has been assigned.
ProcessOrder ==
    /\ ostrategy # NoStrategy
    /\ oops < MaxProcess
    /\ oops' = oops + 1
    /\ IF ~Validate(ototal, oitems)
       THEN /\ olast' = [ret |-> "False", total |-> ototal, valid |-> FALSE,
                         discount |-> 0]
            /\ UNCHANGED <<ototal, saved>>
       ELSE /\ ototal' = ApplyDiscount(ototal, ostrategy)
            /\ saved' = Append(saved, ototal')
            /\ olast' = [ret |-> "True", total |-> ototal, valid |-> TRUE,
                         discount |-> CalculateDiscount(ostrategy, ototal)]
    /\ UNCHANGED <<oitems, ostrategy>>
    /\ UNCHANGED <<coreVars, retryVars, cfgVars, fmVars, bankVars>>

NextOrder ==
    \/ \E total \in Totals, its \in ItemLists, strategy \in Strategies :
          OrderNew(total, its, strategy)
    \/ ProcessOrder

SpecOrder == InitApp /\ [][NextOrder]_vars

\* C27: process_order on an order whose total is not positive or that has
\* no items returns False, saves nothing and leaves the total; on any other
\* order it returns True, the total is the old total less the discount of
\* the strategy, and save was called once more, with the order that has
\* the new total.
OrderProcess ==
    /\ [][oops' # oops =>
            IF ototal <= 0 \/ oitems = <<>>
            THEN /\ olast'.ret = "False"
                 /\ saved' = saved
                 /\ ototal' = ototal
            ELSE /\ olast'.ret = "True"
                 /\ ototal' = ototal - olast'.discount
                 /\ saved' = Append(saved, ototal')
                 /\ ostrategy.kind = "no" => olast'.discount = 0
                 /\ ostrategy.kind = "percentage" =>
                       olast'.discount * 100 = ototal * ostrategy.arg
                 /\ ostrategy.kind = "fixed" =>
                       /\ olast'.discount <= ostrategy.arg
                       /\ olast'.discount <= ototal
                       /\ olast'.discount \in {ostrategy.arg, ototal}]_vars
    /\ [](Len(saved) <= oops)

\* C27 witness: an order was processed twice with a fixed discount and then
\* refused, its total having come down to zero; two saves were made.
OrderProcessWitness ==
    /\ ostrategy = [kind |-> "fixed", arg |-> Unit]
    /\ oops = 3
    /\ saved = <<Unit, 0>>
    /\ ototal = 0
    /\ olast.ret = "False"

====
